---- MODULE Spec2Model ----
(***************************************************************************)
(* Budget Scenario Planner (src/scenario_planner.py).                      *)
(*                                                                         *)
(* The program is a Streamlit script: every widget interaction re-runs     *)
(* scenario_planner_app() from the top against the session's               *)
(* st.session_state.  One action of the model is one complete run of the   *)
(* script for one combination of widget values.  The state is the session  *)
(* dictionary, the workbook on disk that load_backend_data() reads, and    *)
(* what the last run rendered.                                             *)
(*                                                                         *)
(* Tables (DataFrames) are sequences of rows, a row is a record of its     *)
(* columns.  The script never mutates a DataFrame in place: every table it *)
(* stores is a .copy(), the grid's response is a new frame, and rename /   *)
(* merge build new frames; tables are therefore values here.               *)
(* A numeric cell of the detail table is <<v>>, a missing one (NaN) <<>>.  *)
(***************************************************************************)
EXTENDS Integers, Sequences, FiniteSets, TLC

VARIABLES session_state, backend, ui

vars == <<session_state, backend, ui>>

(***************************************************************************)
(* Bounds of the exploration.                                              *)
(***************************************************************************)
\* most scenarios saved in one session
MaxSaves == 2
\* most scenarios picked in the comparison multiselect
MaxSelected == 2

(***************************************************************************)
(* load_backend_data: the built-in dataset used when the workbook is       *)
(* missing.  ROI is kept in thousandths.                                   *)
(***************************************************************************)
FallbackPlanned ==
  << [Channel |-> "Display",      Site |-> "NYT",      PlannedBudget |-> 700000, ExpectedCPM |-> "$6.5"],
     [Channel |-> "FEP",          Site |-> "FEP_YT",   PlannedBudget |-> 500000, ExpectedCPM |-> "$8.5"],
     [Channel |-> "Search",       Site |-> "Search",   PlannedBudget |-> 300000, ExpectedCPM |-> "$5.5"],
     [Channel |-> "Social Media", Site |-> "Facebook", PlannedBudget |-> 200000, ExpectedCPM |-> "$9.5"],
     [Channel |-> "Video",        Site |-> "Youtube",  PlannedBudget |-> 600000, ExpectedCPM |-> "6.5"] >>

FallbackRecommended ==
  << [Channel |-> "Display",      Site |-> "NYT",      RecommendedBudget |-> 650000, ExpectedCPM |-> "$6.3 - $6.8",  IUs |-> 3500,  ROI |-> 3140],
     [Channel |-> "FEP",          Site |-> "FEP_YT",   RecommendedBudget |-> 520000, ExpectedCPM |-> "$8.1 - $8.9",  IUs |-> 8100,  ROI |-> 1414],
     [Channel |-> "Search",       Site |-> "Search",   RecommendedBudget |-> 350000, ExpectedCPM |-> "$5.0 - $5.5",  IUs |-> 12750, ROI |-> 3430],
     [Channel |-> "Social Media", Site |-> "Facebook", RecommendedBudget |-> 180000, ExpectedCPM |-> "$9.3 - $10.0", IUs |-> 4000,  ROI |-> 3010],
     [Channel |-> "Video",        Site |-> "Youtube",  RecommendedBudget |-> 450000, ExpectedCPM |-> "$6.3 - $6.8",  IUs |-> 7000,  ROI |-> 3140] >>

FallbackSimulation ==
  << [Channel |-> "Display",      Site |-> "NYT",      PlannedBudget |-> 700000, ExpCPMPlanned |-> "$6.5 - $7.0",
      RecommendedBudget |-> 650000, DesiredBudget |-> 650000, ExpCPMRange |-> "$6.3 - $6.8"],
     [Channel |-> "FEP",          Site |-> "FEP_YT",   PlannedBudget |-> 500000, ExpCPMPlanned |-> "$8.0 - $8.7",
      RecommendedBudget |-> 520000, DesiredBudget |-> 500000, ExpCPMRange |-> "$8.1 - $8.9"],
     [Channel |-> "Search",       Site |-> "Search",   PlannedBudget |-> 300000, ExpCPMPlanned |-> "$5.2 - $5.8",
      RecommendedBudget |-> 350000, DesiredBudget |-> 350000, ExpCPMRange |-> "$5.0 - $5.5"],
     [Channel |-> "Social Media", Site |-> "Facebook", PlannedBudget |-> 200000, ExpCPMPlanned |-> "$9.1 - $9.8",
      RecommendedBudget |-> 180000, DesiredBudget |-> 150000, ExpCPMRange |-> "$9.3 - $10.0"],
     [Channel |-> "Video",        Site |-> "Youtube",  PlannedBudget |-> 600000, ExpCPMPlanned |-> "$6.5 - $7.0",
      RecommendedBudget |-> 450000, DesiredBudget |-> 450000, ExpCPMRange |-> "$6.3 - $6.8"] >>

FallbackData ==
  [planned |-> FallbackPlanned, recommended |-> FallbackRecommended, simulation |-> FallbackSimulation]

(***************************************************************************)
(* The workbook backend_data.xlsx as it may be found on disk: missing, or  *)
(* a workbook with the three sheets.  The workbook explored here plans two *)
(* channels, the first of them unknown to the built-in dataset and to the  *)
(* CPM mapping, the second with a CPM range that is not among the ranges   *)
(* offered for it, and allocates no desired budget yet.                    *)
(***************************************************************************)
WorkbookSheets ==
  [planned |->
     << [Channel |-> "Radio",   Site |-> "Local", PlannedBudget |-> 50000,  ExpectedCPM |-> "$4.0"],
        [Channel |-> "Display", Site |-> "NYT",   PlannedBudget |-> 100000, ExpectedCPM |-> "$6.5"] >>,
   recommended |->
     << [Channel |-> "Radio",   Site |-> "Local", RecommendedBudget |-> 60000, ExpectedCPM |-> "$4.0 - $4.5", IUs |-> 300, ROI |-> 1500],
        [Channel |-> "Display", Site |-> "NYT",   RecommendedBudget |-> 90000, ExpectedCPM |-> "$6.3 - $6.8", IUs |-> 500, ROI |-> 2000] >>,
   simulation |->
     << [Channel |-> "Radio",   Site |-> "Local", PlannedBudget |-> 50000,  ExpCPMPlanned |-> "$4.0 - $4.5",
         RecommendedBudget |-> 60000, DesiredBudget |-> 0, ExpCPMRange |-> "$4.0 - $4.5"],
        [Channel |-> "Display", Site |-> "NYT",   PlannedBudget |-> 100000, ExpCPMPlanned |-> "$6.5 - $7.0",
         RecommendedBudget |-> 90000, DesiredBudget |-> 0, ExpCPMRange |-> "$7.5 - $8.0"] >>]

BackendFiles ==
  { [found |-> FALSE, readable |-> FALSE, sheets |-> FallbackData],
    [found |-> TRUE,  readable |-> TRUE,  sheets |-> WorkbookSheets] }

(***************************************************************************)
(* A file that is on disk under the workbook's name but that read_excel    *)
(* cannot read (not a workbook, truncated, no permission): nothing can be  *)
(* taken from it.                                                          *)
(***************************************************************************)
NoSheets == [planned |-> <<>>, recommended |-> <<>>, simulation |-> <<>>]

UnreadableFile == [found |-> TRUE, readable |-> FALSE, sheets |-> NoSheets]

AnyBackendFiles == BackendFiles \cup {UnreadableFile}

\* line 13: what pd.read_excel raises for the file, "" when it returns
read_excel_raises(file) ==
  IF ~file.found THEN "FileNotFoundError"
  ELSE IF ~file.readable THEN "ValueError"
  ELSE ""

\* lines 12-14: the except clause names FileNotFoundError only, any other
\* exception of the read leaves load_backend_data and reaches the caller
load_backend_data_raises(file) ==
  read_excel_raises(file) \notin {"", "FileNotFoundError"}

\* pd.read_excel(filepath, sheet_name=None), FileNotFoundError -> built-in data
load_backend_data(file) ==
  IF file.found THEN file.sheets ELSE FallbackData

(***************************************************************************)
(* Python helpers: dict assignment keeps insertion order, an existing key  *)
(* keeps its place.  A dict is a sequence of <<key, value>> entries.       *)
(***************************************************************************)
DictKeys(d) == [i \in 1..Len(d) |-> d[i][1]]

DictKeySet(d) == {d[i][1] : i \in 1..Len(d)}

DictGet(d, k) == d[CHOOSE i \in 1..Len(d) : d[i][1] = k][2]

\* a variant that rebinds the dict to one holding only the new entry
DictSetFresh(d, k, v) == << <<k, v>> >>

\* a variant that puts a new key first
DictSetFront(d, k, v) ==
  IF k \in DictKeySet(d)
  THEN [i \in 1..Len(d) |-> IF d[i][1] = k THEN <<k, v>> ELSE d[i]]
  ELSE << <<k, v>> >> \o d

DictSet(d, k, v) ==
  IF k \in DictKeySet(d)
  THEN [i \in 1..Len(d) |-> IF d[i][1] = k THEN <<k, v>> ELSE d[i]]
  ELSE Append(d, <<k, v>>)

\* DataFrame.copy(): a new frame with the same content
Copy(df) == df

\* a variant that totals the Planned Budget column
RECURSIVE SumPlannedBudget(_)
SumPlannedBudget(df) ==
  IF df = <<>> THEN 0 ELSE Head(df).PlannedBudget + SumPlannedBudget(Tail(df))

\* df[column].sum()
RECURSIVE SumDesiredBudget(_)
SumDesiredBudget(df) ==
  IF df = <<>> THEN 0 ELSE Head(df).DesiredBudget + SumDesiredBudget(Tail(df))

(***************************************************************************)
(* Lines 512-521: the once-per-session initialisation at the top of every  *)
(* run.                                                                    *)
(***************************************************************************)
\* a variant without the "not in st.session_state" test
InitOriginalSimulationReload(ss, file) ==
  [k \in DOMAIN ss \cup {"original_simulation"} |->
     IF k = "original_simulation" THEN Copy(load_backend_data(file).simulation) ELSE ss[k]]

InitOriginalSimulation(ss, file) ==
  IF "original_simulation" \notin DOMAIN ss
  THEN ss @@ ("original_simulation" :> Copy(load_backend_data(file).simulation))
  ELSE ss

InitScenarioCounter(ss) ==
  IF "scenario_counter" \notin DOMAIN ss
  THEN ss @@ ("scenario_counter" :> 0)
  ELSE ss

\* a variant whose "original" entry is always the built-in table
InitSavedScenariosBuiltIn(ss, file) ==
  IF "saved_scenarios" \notin DOMAIN ss
  THEN ss @@ ("saved_scenarios" :> << <<"original", Copy(FallbackSimulation)>> >>)
  ELSE ss

\* a variant that starts the mapping empty
InitSavedScenariosEmpty(ss, file) ==
  IF "saved_scenarios" \notin DOMAIN ss
  THEN ss @@ ("saved_scenarios" :> <<>>)
  ELSE ss

InitSavedScenarios(ss, file) ==
  IF "saved_scenarios" \notin DOMAIN ss
  THEN ss @@ ("saved_scenarios" :> << <<"original", Copy(load_backend_data(file).simulation)>> >>)
  ELSE ss

\* Whether a run is ended by an exception of a load: the loads of lines 514
\* and 521 happen in a session without baseline only, the load of line 596
\* in every run that gets past the brand and segment selectors.
RunRaises(ss, file, past_selectors) ==
  /\ load_backend_data_raises(file)
  /\ past_selectors \/ "original_simulation" \notin DOMAIN ss

InitSessionState(ss, file) ==
  InitSavedScenarios(InitScenarioCounter(InitOriginalSimulation(ss, file)), file)

(***************************************************************************)
(* What a run renders.  Every run re-renders the whole page, so each run   *)
(* sets every field.                                                       *)
(***************************************************************************)
Page(view, message, shown, listing, selected, summary, detail) ==
  [view |-> view, message |-> message, shown |-> shown, listing |-> listing,
   selected |-> selected, summary |-> summary, detail |-> detail]

\* thousands grouping and currency signs are not modelled: a rendered amount
\* is the number itself, a rendered name is the name
ToText(n) == ToString(n)

NoDetail == [columns |-> <<>>, rows |-> <<>>]

BlankPage == Page("none", "", <<>>, <<>>, <<>>, <<>>, NoDetail)

Brands == {"Select Brand", "Brand A"}

Segments == {"Select Segment", "Bath"}

(***************************************************************************)
(* Init: a new browser session, nothing in st.session_state, nothing       *)
(* rendered; the workbook may or may not be on disk.                       *)
(***************************************************************************)
Init ==
  /\ session_state = <<>>
  /\ backend \in BackendFiles
  /\ ui = BlankPage

\* the workbook is put in place, replaced or removed between two runs
BackendFileChanges ==
  /\ \E file \in BackendFiles : file # backend /\ backend' = file
  /\ UNCHANGED <<session_state, ui>>

\* a variant that starts the session over when the brand is deselected
RunSelectBrandStartsOver ==
  /\ ~RunRaises(session_state, backend, FALSE)
  /\ \E segment \in Segments :
       /\ session_state' = InitSessionState(<<>>, backend)
       /\ ui' = Page("select brand", "Please select a valid brand", <<>>, <<>>, <<>>, <<>>, NoDetail)
  /\ UNCHANGED backend

\* lines 557-567: no brand selected, the run ends before the tabs
RunSelectBrand ==
  /\ ~RunRaises(session_state, backend, FALSE)
  /\ \E segment \in Segments :
       /\ session_state' = InitSessionState(session_state, backend)
       /\ ui' = Page("select brand", "Please select a valid brand", <<>>, <<>>, <<>>, <<>>, NoDetail)
  /\ UNCHANGED backend

\* lines 569-579: a brand but no segment selected
RunSelectSegment ==
  /\ ~RunRaises(session_state, backend, FALSE)
  /\ \E brand \in Brands \ {"Select Brand"} :
       /\ session_state' = InitSessionState(session_state, backend)
       /\ ui' = Page("select segment", "Please select a valid segment", <<>>, <<>>, <<>>, <<>>, NoDetail)
  /\ UNCHANGED backend

\* lines 643-674
RunPlannedBudget ==
  /\ ~RunRaises(session_state, backend, TRUE)
  /\ session_state' = InitSessionState(session_state, backend)
  /\ ui' = Page("Planned Budget", "", load_backend_data(backend).planned, <<>>, <<>>, <<>>, NoDetail)
  /\ UNCHANGED backend

\* lines 679-713
RunRecommendedBudget ==
  /\ ~RunRaises(session_state, backend, TRUE)
  /\ session_state' = InitSessionState(session_state, backend)
  /\ ui' = Page("Recommended Budget", "", load_backend_data(backend).recommended, <<>>, <<>>, <<>>, NoDetail)
  /\ UNCHANGED backend

(***************************************************************************)
(* Lines 787-819: the CPM ranges offered for each channel.                 *)
(***************************************************************************)
channel_cpm_mapping ==
  [Channel \in {"Display", "FEP", "Search", "Social Media", "Video"} |->
     CASE Channel = "Display"      -> <<"$6.3 - $6.8", "$6.5 - $7.0", "$6.0 - $6.5", "$6.8 - $7.3">>
       [] Channel = "FEP"          -> <<"$8.1 - $8.9", "$8.0 - $8.7", "$8.5 - $9.0", "$7.8 - $8.5">>
       [] Channel = "Search"       -> <<"$5.0 - $5.5", "$5.2 - $5.8", "$4.8 - $5.3", "$5.5 - $6.0">>
       [] Channel = "Social Media" -> <<"$9.3 - $10.0", "$9.1 - $9.8", "$9.5 - $10.2", "$8.8 - $9.5">>
       [] Channel = "Video"        -> <<"$6.3 - $6.8", "$6.5 - $7.0", "$6.0 - $6.5", "$7.0 - $7.5">>]

\* cpm_dropdown_handler: channelCPMMapping[currentChannel] || []
\* (the values at the given positions of the list)
cpmOptions(currentChannel, positions) ==
  IF currentChannel \in DOMAIN channel_cpm_mapping
  THEN {channel_cpm_mapping[currentChannel][i] :
          i \in positions \cap (1..Len(channel_cpm_mapping[currentChannel]))}
  ELSE {}

\* amounts a user types into a Desired Budget cell
DesiredValues == {570000, -50000}

(***************************************************************************)
(* display_aggrid_table_edit: only "Desired Budget" (free numeric cell)    *)
(* and "Exp. CPM Range" (select editor over the channel's options) are     *)
(* editable.  One cell changes per run (update_on cell_value_changed); the *)
(* response is the frame with that cell replaced.  NoEdit is a run in      *)
(* which the grid returns the frame it was given.                          *)
(***************************************************************************)
NoEdit == [row |-> 0, column |-> "", value |-> 0]

\* rows of the grid in which cells are edited
EditedRows == {1}

\* positions of the select editor's list that are picked
PickedOptions == {2}

GridEdits(dataframe) ==
  LET rows == EditedRows \cap (1..Len(dataframe))
  IN  {[row |-> i, column |-> "Desired Budget", value |-> v] :
          i \in rows, v \in DesiredValues}
      \cup UNION {{[row |-> i, column |-> "Exp. CPM Range", value |-> v] :
                     v \in cpmOptions(dataframe[i].Channel, PickedOptions)} : i \in rows}

display_aggrid_table_edit(dataframe, edit) ==
  [i \in 1..Len(dataframe) |->
     IF i # edit.row THEN dataframe[i]
     ELSE IF edit.column = "Desired Budget"
          THEN [dataframe[i] EXCEPT !.DesiredBudget = edit.value]
          ELSE [dataframe[i] EXCEPT !.ExpCPMRange = edit.value]]

\* f"scenario-{st.session_state.scenario_counter}"
ScenarioName(counter) == "scenario-" \o ToString(counter)

\* a variant that builds the name before the counter is incremented
SaveScenarioNameBeforeIncrement(ss, edited_df) ==
  LET scenario_name == ScenarioName(ss.scenario_counter)
  IN  [ss EXCEPT !.scenario_counter = ss.scenario_counter + 1,
                 !.saved_scenarios = DictSet(@, scenario_name, Copy(edited_df))]

\* a variant that never advances the counter past the first name
SaveScenarioNoIncrement(ss, edited_df) ==
  LET scenario_name == ScenarioName(1)
  IN  [ss EXCEPT !.scenario_counter = 1,
                 !.saved_scenarios = DictSet(@, scenario_name, Copy(edited_df))]

\* lines 839-843: the Save Scenario button
SaveScenario(ss, edited_df) ==
  LET counter == ss.scenario_counter + 1
      scenario_name == ScenarioName(counter)
  IN  [ss EXCEPT !.scenario_counter = counter,
                 !.saved_scenarios = DictSet(@, scenario_name, Copy(edited_df))]

\* a variant that takes the loaded table in every run of the tab
InitEditedSimulationEveryRun(ss, backend_data) ==
  IF "edited_simulation" \notin DOMAIN ss
  THEN ss @@ ("edited_simulation" :> Copy(backend_data.simulation))
  ELSE [ss EXCEPT !.edited_simulation = Copy(backend_data.simulation)]

\* lines 721-723
InitEditedSimulation(ss, backend_data) ==
  IF "edited_simulation" \notin DOMAIN ss
  THEN ss @@ ("edited_simulation" :> Copy(backend_data.simulation))
  ELSE ss

\* a variant in which a saved scenario shares the working copy's frame and
\* the edit is written into that frame
UpdateEditedSimulationInPlace(ss, edited_df) ==
  [ss EXCEPT !.edited_simulation = edited_df,
             !.saved_scenarios =
                [i \in 1..Len(@) |->
                   IF @[i][1] # "original" /\ @[i][2] = ss.edited_simulation
                   THEN <<@[i][1], edited_df>> ELSE @[i]]]

\* line 828: the grid's response becomes the working copy
UpdateEditedSimulation(ss, edited_df) ==
  [ss EXCEPT !.edited_simulation = Copy(edited_df)]

\* lines 845-851: one expander per saved scenario, in dict order
SavedScenariosListing(saved_scenarios) ==
  [i \in 1..Len(saved_scenarios) |->
     [name  |-> saved_scenarios[i][1],
      total |-> SumDesiredBudget(saved_scenarios[i][2]),
      data  |-> saved_scenarios[i][2]]]

(***************************************************************************)
(* Lines 718-851: the Scenario Simulation tab for one grid response and    *)
(* one button state; the result is the session dictionary and the page.    *)
(***************************************************************************)
ScenarioSimulationTab(ss, backend_data, edit, button) ==
  LET ss1 == InitEditedSimulation(ss, backend_data)
      edited_df == display_aggrid_table_edit(ss1.edited_simulation, edit)
      ss2 == UpdateEditedSimulation(ss1, edited_df)
      ss3 == IF button = "Save Scenario" THEN SaveScenario(ss2, edited_df) ELSE ss2
      message ==
        CASE button = "Update ROI" ->
               "ROI Updated! Total Budget: " \o ToText(SumDesiredBudget(edited_df))
          [] button = "Save Scenario" ->
               "Scenario saved as " \o ScenarioName(ss3.scenario_counter)
          [] OTHER -> ""
  IN  [ss |-> ss3,
       ui |-> Page("Scenario Simulation", message, edited_df,
                   SavedScenariosListing(ss3.saved_scenarios), <<>>, <<>>, NoDetail)]

\* the tab is opened or re-run, the grid returns the frame it was given
RunScenarioSimulation ==
  /\ ~RunRaises(session_state, backend, TRUE)
  /\ LET r == ScenarioSimulationTab(InitSessionState(session_state, backend),
                                    load_backend_data(backend), NoEdit, "")
     IN  /\ session_state' = r.ss
         /\ ui' = r.ui
  /\ UNCHANGED backend

\* a cell of the grid on screen is edited
RunEditCell ==
  /\ ~RunRaises(session_state, backend, TRUE)
  /\ ui.view = "Scenario Simulation"
  /\ \E edit \in GridEdits(session_state.edited_simulation) :
       LET r == ScenarioSimulationTab(InitSessionState(session_state, backend),
                                      load_backend_data(backend), edit, "")
       IN  /\ session_state' = r.ss
           /\ ui' = r.ui
  /\ UNCHANGED backend

\* a variant in which Update ROI also stores the table as a scenario
RunUpdateROIAlsoSaves ==
  /\ ~RunRaises(session_state, backend, TRUE)
  /\ ui.view = "Scenario Simulation"
  /\ session_state.scenario_counter < MaxSaves
  /\ LET r == ScenarioSimulationTab(InitSessionState(session_state, backend),
                                    load_backend_data(backend), NoEdit, "Update ROI")
     IN  /\ session_state' = SaveScenario(r.ss, r.ss.edited_simulation)
         /\ ui' = r.ui
  /\ UNCHANGED backend

\* the Update ROI button on screen is clicked
RunUpdateROI ==
  /\ ~RunRaises(session_state, backend, TRUE)
  /\ ui.view = "Scenario Simulation"
  /\ LET r == ScenarioSimulationTab(InitSessionState(session_state, backend),
                                    load_backend_data(backend), NoEdit, "Update ROI")
     IN  /\ session_state' = r.ss
         /\ ui' = r.ui
  /\ UNCHANGED backend

\* the Save Scenario button on screen is clicked
RunSaveScenario ==
  /\ ~RunRaises(session_state, backend, TRUE)
  /\ ui.view = "Scenario Simulation"
  /\ session_state.scenario_counter < MaxSaves
  /\ LET r == ScenarioSimulationTab(InitSessionState(session_state, backend),
                                    load_backend_data(backend), NoEdit, "Save Scenario")
     IN  /\ session_state' = r.ss
         /\ ui' = r.ui
  /\ UNCHANGED backend

(***************************************************************************)
(* Lines 880-908: the summary of the comparison.                           *)
(***************************************************************************)
\* n * 1000 / d rounded to the nearest integer, for d > 0, by long division
\* so that no intermediate product leaves the 32-bit range of the checker
\* (exact halves, which no explored total produces, go to the even neighbour)
RoundPerMille(n, d) ==
  LET q0 == n \div d
      r0 == n - q0 * d
      d1 == (r0 * 10) \div d
      r1 == r0 * 10 - d1 * d
      d2 == (r1 * 10) \div d
      r2 == r1 * 10 - d2 * d
      d3 == (r2 * 10) \div d
      r3 == r2 * 10 - d3 * d
      q  == q0 * 1000 + d1 * 100 + d2 * 10 + d3
  IN  IF 2 * r3 < d THEN q
      ELSE IF 2 * r3 > d THEN q + 1
      ELSE IF q % 2 = 0 THEN q ELSE q + 1

\* (budget_change / original_total) * 100 if original_total > 0 else 0, as
\* rendered by {change_percent:+.1f}: the value in tenths of a percent
change_percent(budget_change, original_total) ==
  IF original_total > 0 THEN RoundPerMille(budget_change, original_total) ELSE 0

\* a variant that gives the baseline row a change of its own
BaselineRowWithChange(original_df) ==
  [Scenario     |-> "Original",
   TotalBudget  |-> SumDesiredBudget(original_df),
   BudgetChange |-> [change |-> 0, percent |-> 0],
   ChannelCount |-> Len(original_df),
   Status       |-> "Baseline"]

\* lines 884-891
BaselineRow(original_df) ==
  [Scenario     |-> "Original",
   TotalBudget  |-> SumDesiredBudget(original_df),
   ChannelCount |-> Len(original_df),
   Status       |-> "Baseline"]

\* a variant that subtracts the wrong way round
ScenarioRowReversed(scenario_name, scenario_df, original_total) ==
  LET scenario_total == SumDesiredBudget(scenario_df)
      budget_change == original_total - scenario_total
  IN  [Scenario     |-> scenario_name,
       TotalBudget  |-> scenario_total,
       BudgetChange |-> [change  |-> budget_change,
                         percent |-> change_percent(budget_change, original_total)],
       ChannelCount |-> Len(scenario_df),
       Status       |-> "Custom"]

\* lines 895-906
ScenarioRow(scenario_name, scenario_df, original_total) ==
  LET scenario_total == SumDesiredBudget(scenario_df)
      budget_change == scenario_total - original_total
  IN  [Scenario     |-> scenario_name,
       TotalBudget  |-> scenario_total,
       BudgetChange |-> [change  |-> budget_change,
                         percent |-> change_percent(budget_change, original_total)],
       ChannelCount |-> Len(scenario_df),
       Status       |-> "Custom"]

\* a variant that walks the saved scenarios and keeps the selected ones
comparison_data_in_saved_order(original_df, saved_scenarios, selected_scenarios) ==
  LET chosen == {selected_scenarios[i] : i \in 1..Len(selected_scenarios)}
      ordered == SelectSeq(DictKeys(saved_scenarios), LAMBDA name : name \in chosen)
  IN  <<BaselineRow(original_df)>> \o
      [i \in 1..Len(ordered) |->
         ScenarioRow(ordered[i], DictGet(saved_scenarios, ordered[i]),
                     SumDesiredBudget(original_df))]

\* lines 880-906: the baseline row, then one row per selected scenario
comparison_data(original_df, saved_scenarios, selected_scenarios) ==
  <<BaselineRow(original_df)>> \o
  [i \in 1..Len(selected_scenarios) |->
     ScenarioRow(selected_scenarios[i],
                 DictGet(saved_scenarios, selected_scenarios[i]),
                 SumDesiredBudget(original_df))]

(***************************************************************************)
(* Lines 934-951: the per-channel detail table.  A table is its column     *)
(* names in order and its rows, a row maps each column name to a cell.     *)
(***************************************************************************)
NaN == <<>>

\* a variant that takes a missing cell for 0
MinusMissingAsZero(a, b) ==
  <<(IF a = NaN THEN 0 ELSE a[1]) - (IF b = NaN THEN 0 ELSE b[1])>>

\* pandas subtraction of two numeric cells: missing propagates
Minus(a, b) == IF a = NaN \/ b = NaN THEN NaN ELSE <<a[1] - b[1]>>

\* original_df[["Channel", "Desired Budget"]] renamed to "Original Budget"
OriginalBudgets(original_df) ==
  [columns |-> <<"Channel", "Original Budget">>,
   rows    |-> [i \in 1..Len(original_df) |->
                  [c \in {"Channel", "Original Budget"} |->
                     IF c = "Channel" THEN original_df[i].Channel
                     ELSE <<original_df[i].DesiredBudget>>]]]

\* the rows a left row yields in merge(how="left"): one per matching right
\* row, in the right frame's order, or one with a missing cell if none
RECURSIVE MergeRow(_, _, _)
MergeRow(leftRow, right, column) ==
  IF right = <<>> THEN <<>>
  ELSE (IF Head(right).Channel = leftRow["Channel"]
        THEN <<leftRow @@ (column :> <<Head(right).DesiredBudget>>)>>
        ELSE <<>>) \o MergeRow(leftRow, Tail(right), column)

RECURSIVE MergeRows(_, _, _)
MergeRows(leftRows, right, column) ==
  IF leftRows = <<>> THEN <<>>
  ELSE (LET m == MergeRow(Head(leftRows), right, column)
        IN  IF m = <<>> THEN <<Head(leftRows) @@ (column :> NaN)>> ELSE m)
       \o MergeRows(Tail(leftRows), right, column)

\* detailed_comparison.merge(scenario_budgets, on="Channel", how="left")
MergeLeft(detailed, scenario_df, scenario_name) ==
  LET column == scenario_name \o " Budget"
  IN  [columns |-> Append(detailed.columns, column),
       rows    |-> MergeRows(detailed.rows, scenario_df, column)]

\* lines 938-945, for the first n selected scenarios
RECURSIVE MergeSelected(_, _, _, _)
MergeSelected(detailed, saved_scenarios, selected_scenarios, n) ==
  IF n = 0 THEN detailed
  ELSE MergeLeft(MergeSelected(detailed, saved_scenarios, selected_scenarios, n - 1),
                 DictGet(saved_scenarios, selected_scenarios[n]),
                 selected_scenarios[n])

\* lines 948-951: one "vs Original" column per selected scenario
AddDifference(detailed, scenario_name) ==
  LET column == scenario_name \o " vs Original"
  IN  [columns |-> Append(detailed.columns, column),
       rows    |-> [i \in 1..Len(detailed.rows) |->
                      detailed.rows[i] @@
                      (column :> Minus(detailed.rows[i][scenario_name \o " Budget"],
                                       detailed.rows[i]["Original Budget"]))]]

RECURSIVE AddDifferences(_, _, _)
AddDifferences(detailed, selected_scenarios, n) ==
  IF n = 0 THEN detailed
  ELSE AddDifference(AddDifferences(detailed, selected_scenarios, n - 1),
                     selected_scenarios[n])

detailed_comparison(original_df, saved_scenarios, selected_scenarios) ==
  AddDifferences(
    MergeSelected(OriginalBudgets(original_df), saved_scenarios,
                  selected_scenarios, Len(selected_scenarios)),
    selected_scenarios, Len(selected_scenarios))

\* line 870: the selection a newly rendered multiselect starts with
DefaultSelection(available_scenarios) ==
  SubSeq(available_scenarios, 1, IF Len(available_scenarios) < 2 THEN Len(available_scenarios) ELSE 2)

\* st.multiselect keeps the chosen options in the order they were chosen:
\* one interaction appends an option not yet chosen or removes a chosen one
SelectionChanges(available_scenarios, selected) ==
  LET names == {available_scenarios[i] : i \in 1..Len(available_scenarios)}
      chosen == {selected[i] : i \in 1..Len(selected)}
  IN  {Append(selected, name) : name \in IF Len(selected) < MaxSelected
                                         THEN names \ chosen ELSE {}}
      \cup {SelectSeq(selected, LAMBDA name : name # removed) : removed \in chosen}

\* a variant without the "if not selected_scenarios" test of line 873
ScenarioComparisonTabNoWarning(ss, selected_scenarios) ==
  IF ss.saved_scenarios = <<>>
  THEN Page("Scenario Comparison", "No scenarios saved yet", <<>>, <<>>, <<>>, <<>>, NoDetail)
  ELSE Page("Scenario Comparison", "", <<>>, DictKeys(ss.saved_scenarios),
            selected_scenarios,
            comparison_data(ss.original_simulation, ss.saved_scenarios, selected_scenarios),
            detailed_comparison(ss.original_simulation, ss.saved_scenarios, selected_scenarios))

(***************************************************************************)
(* Lines 856-953: the Scenario Comparison tab for one selection; the       *)
(* session dictionary is only read.                                        *)
(***************************************************************************)
ScenarioComparisonTab(ss, selected_scenarios) ==
  IF ss.saved_scenarios = <<>>
  THEN Page("Scenario Comparison", "No scenarios saved yet", <<>>, <<>>, <<>>, <<>>, NoDetail)
  ELSE IF selected_scenarios = <<>>
  THEN Page("Scenario Comparison", "Please select at least one scenario to compare.",
            <<>>, DictKeys(ss.saved_scenarios), <<>>, <<>>, NoDetail)
  ELSE Page("Scenario Comparison", "", <<>>, DictKeys(ss.saved_scenarios),
            selected_scenarios,
            comparison_data(ss.original_simulation, ss.saved_scenarios, selected_scenarios),
            detailed_comparison(ss.original_simulation, ss.saved_scenarios, selected_scenarios))

\* the tab is opened: the multiselect is rendered anew with its default
RunScenarioComparison ==
  /\ ~RunRaises(session_state, backend, TRUE)
  /\ ui.view # "Scenario Comparison"
  /\ LET ss == InitSessionState(session_state, backend)
     IN  /\ ui' = ScenarioComparisonTab(ss, DefaultSelection(DictKeys(ss.saved_scenarios)))
         /\ session_state' = ss
  /\ UNCHANGED backend

\* the selection of the multiselect on screen is changed
RunChangeSelection ==
  /\ ~RunRaises(session_state, backend, TRUE)
  /\ ui.view = "Scenario Comparison"
  /\ \E selected_scenarios \in
          SelectionChanges(DictKeys(session_state.saved_scenarios), ui.selected) :
       ui' = ScenarioComparisonTab(InitSessionState(session_state, backend),
                                   selected_scenarios)
  /\ session_state' = InitSessionState(session_state, backend)
  /\ UNCHANGED backend

Next ==
  \/ BackendFileChanges
  \/ RunScenarioComparison
  \/ RunChangeSelection
  \/ RunScenarioSimulation
  \/ RunEditCell
  \/ RunUpdateROI
  \/ RunSaveScenario
  \/ RunSelectBrand
  \/ RunSelectSegment
  \/ RunPlannedBudget
  \/ RunRecommendedBudget

Spec == Init /\ [][Next]_vars

(***************************************************************************)
(* Several browser sessions of the same server process.  Streamlit keeps   *)
(* one st.session_state per session and runs the script for a session      *)
(* against that session's dictionary; the script has no module-level       *)
(* mutable data, the workbook is the only thing the sessions share and it  *)
(* is only read.  In this specification session_state and ui hold one      *)
(* value per session, and the workbook stays as it was found.              *)
(***************************************************************************)
Sessions == {"s1", "s2"}

\* st.session_state as the script of session s sees it
SessionStateOf(all, s) == all[s]

\* a variant in which what a run stores is stored for the whole process
WithSessionStateShared(all, s, ss) == [t \in DOMAIN all |-> ss]

\* what the run of session s stored in st.session_state
WithSessionState(all, s, ss) == [all EXCEPT ![s] = ss]

\* the amounts typed in the sessions explored together
SessionEdits(dataframe) ==
  {edit \in GridEdits(dataframe) : edit.column = "Desired Budget" /\ edit.value > 0}

InitSessions ==
  /\ session_state = [s \in Sessions |-> <<>>]
  /\ backend \in BackendFiles
  /\ ui = [s \in Sessions |-> BlankPage]

\* lines 557-567 in session s
SessionRunSelectBrand(s) ==
  /\ session_state' = WithSessionState(session_state, s,
                         InitSessionState(SessionStateOf(session_state, s), backend))
  /\ ui' = [ui EXCEPT ![s] = Page("select brand", "Please select a valid brand",
                                  <<>>, <<>>, <<>>, <<>>, NoDetail)]
  /\ UNCHANGED backend

\* lines 718-851 in session s, for one grid response and one button state
SessionSimulationTab(s, edit, button) ==
  ScenarioSimulationTab(InitSessionState(SessionStateOf(session_state, s), backend),
                        load_backend_data(backend), edit, button)

\* the tab is opened or re-run in session s
SessionRunScenarioSimulation(s) ==
  /\ LET r == SessionSimulationTab(s, NoEdit, "")
     IN  /\ session_state' = WithSessionState(session_state, s, r.ss)
         /\ ui' = [ui EXCEPT ![s] = r.ui]
  /\ UNCHANGED backend

\* a Desired Budget cell of the grid of session s is edited
SessionRunEditCell(s) ==
  /\ ui[s].view = "Scenario Simulation"
  /\ \E edit \in SessionEdits(SessionStateOf(session_state, s).edited_simulation) :
       LET r == SessionSimulationTab(s, edit, "")
       IN  /\ session_state' = WithSessionState(session_state, s, r.ss)
           /\ ui' = [ui EXCEPT ![s] = r.ui]
  /\ UNCHANGED backend

\* the Save Scenario button of session s is clicked
SessionRunSaveScenario(s) ==
  /\ ui[s].view = "Scenario Simulation"
  /\ SessionStateOf(session_state, s).scenario_counter < MaxSaves
  /\ LET r == SessionSimulationTab(s, NoEdit, "Save Scenario")
     IN  /\ session_state' = WithSessionState(session_state, s, r.ss)
         /\ ui' = [ui EXCEPT ![s] = r.ui]
  /\ UNCHANGED backend

NextSessions ==
  \E s \in Sessions :
    \/ SessionRunSelectBrand(s)
    \/ SessionRunScenarioSimulation(s)
    \/ SessionRunEditCell(s)
    \/ SessionRunSaveScenario(s)

SpecSessions == InitSessions /\ [][NextSessions]_vars

(***************************************************************************)
(* The same program when the file on disk may also be unreadable.  A run   *)
(* that reaches a load of such a file ends there with the exception; the   *)
(* page shows the traceback, st.session_state keeps what it held, the      *)
(* first load of a run coming before anything is stored.                   *)
(***************************************************************************)
InitAnyFile ==
  /\ session_state = <<>>
  /\ backend \in AnyBackendFiles
  /\ ui = BlankPage

\* the file on disk is damaged, or a damaged one is replaced or removed
BackendFileDamaged ==
  /\ \E file \in AnyBackendFiles :
       /\ file # backend
       /\ load_backend_data_raises(file) \/ load_backend_data_raises(backend)
       /\ backend' = file
  /\ UNCHANGED <<session_state, ui>>

\* lines 514, 521, 596: load_backend_data() raises and the run ends
RunLoadRaises ==
  /\ \E past_selectors \in BOOLEAN : RunRaises(session_state, backend, past_selectors)
  /\ ui' = Page("exception", read_excel_raises(backend), <<>>, <<>>, <<>>, <<>>, NoDetail)
  /\ UNCHANGED <<session_state, backend>>

NextAnyFile ==
  \/ Next
  \/ BackendFileDamaged
  \/ RunLoadRaises

SpecAnyFile == InitAnyFile /\ [][NextAnyFile]_vars

(***************************************************************************)
(* Properties.                                                             *)
(***************************************************************************)
\* the scenario mapping of a session dictionary, empty before the first run
Saved(ss) == IF "saved_scenarios" \in DOMAIN ss THEN ss.saved_scenarios ELSE <<>>

IsPrefix(s, t) == Len(s) <= Len(t) /\ \A i \in 1..Len(s) : s[i] = t[i]

\* C1: every Save Scenario run increments the counter by exactly one and
\* stores under "scenario-k", k the new counter value; it is the k-th save,
\* the names assigned so far being scenario-1 .. scenario-k in this order,
\* pairwise distinct.
C1_SaveNamesCounted ==
  [][RunSaveScenario =>
       LET k == session_state'.scenario_counter
           keys == DictKeys(session_state'.saved_scenarios)
       IN  /\ k = session_state.scenario_counter + 1
           /\ ui'.message = "Scenario saved as scenario-" \o ToString(k)
           /\ keys = <<"original">> \o [i \in 1..k |-> "scenario-" \o ToString(i)]
           /\ Cardinality({keys[i] : i \in 1..Len(keys)}) = Len(keys)]_vars

C1_Witness ==
  /\ ui.message = "Scenario saved as scenario-2"
  /\ session_state.scenario_counter = 2
  /\ DictKeys(session_state.saved_scenarios) = <<"original", "scenario-1", "scenario-2">>

\* C2: the table stored by a save equals the working copy at that moment,
\* and an edit of the working copy changes no stored table.
C2_SnapshotIndependent ==
  [][/\ RunSaveScenario =>
          DictGet(session_state'.saved_scenarios,
                  "scenario-" \o ToString(session_state'.scenario_counter))
            = session_state'.edited_simulation
     /\ RunEditCell =>
          \A name \in DictKeySet(session_state.saved_scenarios) :
            /\ name \in DictKeySet(session_state'.saved_scenarios)
            /\ DictGet(session_state'.saved_scenarios, name)
                 = DictGet(session_state.saved_scenarios, name)]_vars

\* a scenario was saved from an edited working copy, which was edited again
C2_Witness ==
  /\ ui.view = "Scenario Simulation"
  /\ "edited_simulation" \in DOMAIN session_state
  /\ "scenario-1" \in DictKeySet(session_state.saved_scenarios)
  /\ LET snapshot == DictGet(session_state.saved_scenarios, "scenario-1")
     IN  /\ snapshot # session_state.edited_simulation
         /\ snapshot # DictGet(session_state.saved_scenarios, "original")
         /\ snapshot[1].DesiredBudget = 570000
         /\ session_state.edited_simulation[1].DesiredBudget = -50000

\* C3: a save writes to a name that was not a key; every entry present
\* before it is present after it with the same table at the same place, and
\* the mapping has exactly one more entry.
C3_SaveNeverOverwrites ==
  [][RunSaveScenario =>
       LET before == session_state.saved_scenarios
           after == session_state'.saved_scenarios
       IN  /\ Len(after) = Len(before) + 1
           /\ \A i \in 1..Len(before) : after[i] = before[i]
           /\ after[Len(after)][1] \notin DictKeySet(before)]_vars

\* the second save kept a first scenario with another content
C3_Witness ==
  /\ ui.view = "Scenario Simulation"
  /\ Len(ui.message) > 0
  /\ Len(session_state.saved_scenarios) = 3
  /\ session_state.saved_scenarios[2][2] # session_state.saved_scenarios[3][2]
  /\ session_state.saved_scenarios[3][2] = session_state.edited_simulation

\* C4: the first run stores the loaded simulation table as the baseline and
\* no later step changes it, whatever the workbook on disk has become.
C4_BaselineSetOnce ==
  [][IF "original_simulation" \in DOMAIN session_state
     THEN /\ "original_simulation" \in DOMAIN session_state'
          /\ session_state'.original_simulation = session_state.original_simulation
     ELSE ui' # ui =>
            /\ "original_simulation" \in DOMAIN session_state'
            /\ session_state'.original_simulation
                 = (IF backend.found THEN backend.sheets.simulation
                    ELSE FallbackSimulation)]_vars

\* the workbook changed after the first run, and runs that loaded the new
\* one (the working copy, a save) have happened since
C4_Witness ==
  /\ "original_simulation" \in DOMAIN session_state
  /\ "edited_simulation" \in DOMAIN session_state
  /\ session_state.original_simulation = FallbackSimulation
  /\ backend.found
  /\ Len(session_state.edited_simulation) # Len(session_state.original_simulation)
  /\ session_state.scenario_counter = 1

\* C5: a name that is a key of the scenario mapping is a key after every
\* step.
C5_SavedIsTerminal ==
  [][\A name \in DictKeySet(Saved(session_state)) :
        name \in DictKeySet(Saved(session_state'))]_vars

\* two scenarios saved, still there in a later run of another tab
C5_Witness ==
  /\ ui.view = "Scenario Comparison"
  /\ {"scenario-1", "scenario-2"} \subseteq DictKeySet(Saved(session_state))
  /\ ui.selected = <<"scenario-1">>

C7_SummaryDeltaAndPercent ==
  ui.summary # <<>> =>
    LET baseline_total == SumDesiredBudget(session_state.original_simulation)
    IN  \A i \in 2..Len(ui.summary) :
          LET row == ui.summary[i]
              scenario_total ==
                SumDesiredBudget(DictGet(session_state.saved_scenarios, row.Scenario))
              delta == row.BudgetChange.change
              tenths == row.BudgetChange.percent
              t == baseline_total \div 10000
              c == delta \div 10000
          IN  /\ delta = scenario_total - baseline_total
              /\ IF baseline_total = 0
                 THEN tenths = 0
                 ELSE /\ baseline_total = t * 10000
                      /\ delta = c * 10000
                      /\ (2 * tenths - 1) * t <= 2000 * c
                      /\ 2000 * c <= (2 * tenths + 1) * t
              /\ (baseline_total = 2100000 /\ scenario_total = 2020000)
                   => (delta = -80000 /\ tenths = -38)

\* the reference case is on screen
C7_Witness ==
  /\ Len(ui.summary) >= 2
  /\ ui.summary[1].TotalBudget = 2100000
  /\ ui.summary[2].TotalBudget = 2020000
  /\ ui.summary[2].BudgetChange = [change |-> -80000, percent |-> -38]

\* C8: the detail table has the baseline's channels; for each of its rows and
\* each selected scenario, if the scenario's table has the channel the
\* budget is the scenario's and the delta is budget - baseline budget, and
\* if it has not, budget and delta are both missing.
C8_DetailDeltaOrMissing ==
  (ui.view = "Scenario Comparison" /\ ui.selected # <<>>) =>
    LET original_df == session_state.original_simulation
        rows == ui.detail.rows
    IN  /\ {rows[i]["Channel"] : i \in 1..Len(rows)}
             = {original_df[j].Channel : j \in 1..Len(original_df)}
        /\ \A i \in 1..Len(rows), k \in 1..Len(ui.selected) :
             LET name == ui.selected[k]
                 scenario_df == DictGet(session_state.saved_scenarios, name)
                 channel == rows[i]["Channel"]
                 budgets == {scenario_df[j].DesiredBudget :
                               j \in {j \in 1..Len(scenario_df) :
                                        scenario_df[j].Channel = channel}}
                 base == rows[i]["Original Budget"]
                 budget == rows[i][name \o " Budget"]
                 delta == rows[i][name \o " vs Original"]
             IN  /\ Len(base) = 1
                 /\ base[1] \in {original_df[j].DesiredBudget :
                                   j \in {j \in 1..Len(original_df) :
                                            original_df[j].Channel = channel}}
                 /\ IF budgets # {}
                    THEN /\ Len(budget) = 1
                         /\ budget[1] \in budgets
                         /\ delta = <<budget[1] - base[1]>>
                    ELSE /\ budget = <<>>
                         /\ delta = <<>>

\* a scenario with one of the baseline's five channels is compared
C8_Witness ==
  /\ ui.view = "Scenario Comparison"
  /\ ui.selected = <<"scenario-1">>
  /\ Len(ui.detail.rows) = 5
  /\ ui.detail.rows[1]["Channel"] = "Display"
  /\ ui.detail.rows[1]["scenario-1 Budget"] = <<0>>
  /\ ui.detail.rows[1]["scenario-1 vs Original"] = <<-650000>>
  /\ ui.detail.rows[2]["scenario-1 Budget"] = <<>>
  /\ ui.detail.rows[2]["scenario-1 vs Original"] = <<>>

\* C9: a comparison with a selection shows a summary whose first row is the
\* baseline, labelled "Original" / "Baseline" unlike any scenario, without
\* a budget change; each further row is one of the selected scenarios, with
\* status "Custom", a delta and a percent change.
C9_BaselineRowFirst ==
  (ui.view = "Scenario Comparison" /\ ui.selected # <<>>) =>
    /\ Len(ui.summary) = Len(ui.selected) + 1
    /\ ui.summary[1].Scenario = "Original"
    /\ ui.summary[1].Status = "Baseline"
    /\ ui.summary[1].TotalBudget = SumDesiredBudget(session_state.original_simulation)
    /\ "BudgetChange" \notin DOMAIN ui.summary[1]
    /\ "Original" \notin DictKeySet(session_state.saved_scenarios)
    /\ \A i \in 2..Len(ui.summary) :
         /\ ui.summary[i].Scenario \in {ui.selected[k] : k \in 1..Len(ui.selected)}
         /\ ui.summary[i].Scenario # ui.summary[1].Scenario
         /\ ui.summary[i].Status = "Custom"
         /\ "BudgetChange" \in DOMAIN ui.summary[i]
         /\ DOMAIN ui.summary[i].BudgetChange = {"change", "percent"}

\* the scenario called "original" is compared together with a saved one
C9_Witness ==
  /\ ui.view = "Scenario Comparison"
  /\ ui.selected = <<"original", "scenario-1">>
  /\ Len(ui.summary) = 3
  /\ ui.summary[2].Scenario = "original"
  /\ ui.summary[3].BudgetChange.change # 0

\* C10: the summary's scenario rows and the detail's budget columns and
\* difference columns follow the selection, in the order of the selection.
C10_SelectionOrderKept ==
  (ui.view = "Scenario Comparison" /\ ui.selected # <<>>) =>
    /\ [i \in 1..(Len(ui.summary) - 1) |-> ui.summary[i + 1].Scenario] = ui.selected
    /\ ui.detail.columns =
         <<"Channel", "Original Budget">>
         \o [i \in 1..Len(ui.selected) |-> ui.selected[i] \o " Budget"]
         \o [i \in 1..Len(ui.selected) |-> ui.selected[i] \o " vs Original"]

\* selected against both the alphabet and the order of saving
C10_Witness ==
  /\ ui.view = "Scenario Comparison"
  /\ ui.selected = <<"scenario-2", "original">>
  /\ Len(ui.summary) = 3
  /\ Len(ui.detail.columns) = 6

\* C11: a run of the comparison tab with nothing selected ends with the
\* warning, shows no summary and no detail table, and leaves the baseline,
\* the scenario mapping and the counter as they were; the page is the same
\* one whenever the state is the same.
C11_EmptySelectionWarns ==
  [][(ui'.view = "Scenario Comparison" /\ ui'.selected = <<>>) =>
       /\ ui' = [view     |-> "Scenario Comparison",
                 message  |-> "Please select at least one scenario to compare.",
                 shown    |-> <<>>,
                 listing  |-> DictKeys(session_state'.saved_scenarios),
                 selected |-> <<>>,
                 summary  |-> <<>>,
                 detail   |-> [columns |-> <<>>, rows |-> <<>>]]
       /\ "saved_scenarios" \in DOMAIN session_state
       /\ session_state'.original_simulation = session_state.original_simulation
       /\ session_state'.saved_scenarios = session_state.saved_scenarios
       /\ session_state'.scenario_counter = session_state.scenario_counter]_vars

\* the last chosen scenario was removed from the selection, with scenarios saved
C11_Witness ==
  /\ ui.view = "Scenario Comparison"
  /\ ui.selected = <<>>
  /\ ui.message = "Please select at least one scenario to compare."
  /\ session_state.scenario_counter = 2

\* C12: load_backend_data never fails its caller: for a missing and for an
\* unreadable file it returns the built-in dataset (Display, FEP, Search,
\* Social Media, Video with planned budgets 700000, 500000, 300000, 200000,
\* 600000), so no run ends with an exception of the load.
C12_LoadNeverFails ==
  /\ ui.view # "exception"
  /\ ~backend.found =>
       /\ [i \in 1..Len(load_backend_data(backend).planned) |->
             load_backend_data(backend).planned[i].Channel]
            = <<"Display", "FEP", "Search", "Social Media", "Video">>
       /\ [i \in 1..Len(load_backend_data(backend).planned) |->
             load_backend_data(backend).planned[i].PlannedBudget]
            = <<700000, 500000, 300000, 200000, 600000>>

\* the sum of the first n desired budgets of a table, row by row
RECURSIVE TotalOfRows(_, _)
TotalOfRows(df, n) ==
  IF n = 0 THEN 0 ELSE TotalOfRows(df, n - 1) + df[n].DesiredBudget

\* C13: every total of desired budget on screen (the Update ROI message, the
\* header of each listed scenario, the totals of the comparison summary) is
\* the sum of the desired budgets of the rows of its table; the rows
\* 650000, 500000, 350000, 150000, 450000 total 2100000.
C13_TotalsAreRowSums ==
  /\ ui.view = "Scenario Simulation" =>
       /\ \/ ui.message \in {"", "Scenario saved as " \o ScenarioName(session_state.scenario_counter)}
          \/ ui.message = "ROI Updated! Total Budget: "
                             \o ToString(TotalOfRows(ui.shown, Len(ui.shown)))
       /\ \A i \in 1..Len(ui.listing) :
            /\ ui.listing[i].total = TotalOfRows(ui.listing[i].data, Len(ui.listing[i].data))
            /\ [r \in 1..Len(ui.listing[i].data) |-> ui.listing[i].data[r].DesiredBudget]
                  = <<650000, 500000, 350000, 150000, 450000>>
                => ui.listing[i].total = 2100000
  /\ (ui.view = "Scenario Comparison" /\ ui.summary # <<>>) =>
       /\ ui.summary[1].TotalBudget
            = TotalOfRows(session_state.original_simulation,
                          Len(session_state.original_simulation))
       /\ \A k \in 1..Len(ui.selected) :
            LET df == DictGet(session_state.saved_scenarios, ui.selected[k])
            IN  ui.summary[k + 1].TotalBudget = TotalOfRows(df, Len(df))

\* Update ROI after an edit of the built-in table, with its unedited total listed
C13_Witness ==
  /\ ui.view = "Scenario Simulation"
  /\ ui.message = "ROI Updated! Total Budget: 2020000"
  /\ ui.listing[1].total = 2100000

\* the columns of a table that the grid does not offer for editing
FixedColumns(df) ==
  [i \in 1..Len(df) |-> <<df[i].Channel, df[i].Site, df[i].PlannedBudget, df[i].RecommendedBudget>>]

\* C14: after any edits and saves every row of the working copy and of every
\* saved scenario has the Channel, Site, Planned Budget and Recommended
\* Budget of the corresponding row of the baseline; only Desired Budget and
\* Exp. CPM Range can differ.
C14_FixedColumnsMatchBaseline ==
  "original_simulation" \in DOMAIN session_state =>
    /\ "edited_simulation" \in DOMAIN session_state =>
         FixedColumns(session_state.edited_simulation)
           = FixedColumns(session_state.original_simulation)
    /\ \A i \in 1..Len(session_state.saved_scenarios) :
         FixedColumns(session_state.saved_scenarios[i][2])
           = FixedColumns(session_state.original_simulation)

\* a table is valid: no channel twice, every Exp. CPM Range among the ranges
\* configured for the row's channel
ValidTable(df) ==
  /\ \A i, j \in 1..Len(df) : df[i].Channel = df[j].Channel => i = j
  /\ \A i \in 1..Len(df) :
       df[i].ExpCPMRange \in cpmOptions(df[i].Channel, 1..4)

\* C15: every table in the store is valid: the baseline, the working copy
\* and every saved scenario have unique channels and CPM ranges taken from
\* the set allowed for the row's channel; nothing invalid is stored silently.
C15_StoredTablesValid ==
  /\ "original_simulation" \in DOMAIN session_state =>
       /\ ValidTable(session_state.original_simulation)
       /\ \A i \in 1..Len(session_state.saved_scenarios) :
            ValidTable(session_state.saved_scenarios[i][2])
  /\ "edited_simulation" \in DOMAIN session_state =>
       ValidTable(session_state.edited_simulation)

\* C16: after any edits and saves every Desired Budget of the working copy
\* and of every saved scenario is a non-negative amount.
C16_DesiredBudgetsNonNegative ==
  /\ "edited_simulation" \in DOMAIN session_state =>
       \A r \in 1..Len(session_state.edited_simulation) :
         session_state.edited_simulation[r].DesiredBudget >= 0
  /\ "saved_scenarios" \in DOMAIN session_state =>
       \A i \in 1..Len(session_state.saved_scenarios) :
         \A r \in 1..Len(session_state.saved_scenarios[i][2]) :
           session_state.saved_scenarios[i][2][r].DesiredBudget >= 0

\* C17: with several sessions interleaving, a run of one session (an edit, a
\* save, a counter increment) changes nothing of another session: not its
\* baseline, scenario mapping, counter or working copy, nor the names and
\* tables on its page, which stay those of its own scenario mapping.
C17_SessionsIsolated ==
  [][\A s \in Sessions :
       /\ (\E t \in Sessions \ {s} :
              session_state'[t] # session_state[t] \/ ui'[t] # ui[t])
            => (session_state'[s] = session_state[s] /\ ui'[s] = ui[s])
       /\ ui'[s].view = "Scenario Simulation" =>
            /\ [i \in 1..Len(ui'[s].listing) |-> ui'[s].listing[i].name]
                 = DictKeys(session_state'[s].saved_scenarios)
            /\ \A i \in 1..Len(ui'[s].listing) :
                 ui'[s].listing[i].data = session_state'[s].saved_scenarios[i][2]]_vars

\* both sessions have saved, a different number of scenarios with different tables
C17_Witness ==
  /\ "scenario_counter" \in DOMAIN session_state["s1"]
  /\ "scenario_counter" \in DOMAIN session_state["s2"]
  /\ session_state["s1"].scenario_counter = 2
  /\ session_state["s2"].scenario_counter = 1
  /\ session_state["s1"].saved_scenarios[2][2] # session_state["s2"].saved_scenarios[2][2]

\* C18: once the session is initialised the keys of the scenario mapping
\* are exactly "original" and "scenario-1" .. "scenario-n" with n the
\* counter, so the mapping has n + 1 entries and is never empty, and the
\* comparison tab never shows "No scenarios saved yet".
C18_KeysAreOriginalAndCounted ==
  /\ ui.message # "No scenarios saved yet"
  /\ "saved_scenarios" \in DOMAIN session_state =>
       /\ DictKeySet(session_state.saved_scenarios)
            = {"original"} \cup {ScenarioName(k) : k \in 1..session_state.scenario_counter}
       /\ Len(session_state.saved_scenarios) = session_state.scenario_counter + 1
       /\ session_state.saved_scenarios # <<>>

\* the comparison tab is shown after two saves
C18_Witness ==
  /\ ui.view = "Scenario Comparison"
  /\ session_state.scenario_counter = 2
  /\ ui.listing = <<"original", "scenario-1", "scenario-2">>

C20_SaveOnlyOnSimulationTab ==
  [][/\ (RunSelectBrand \/ RunSelectSegment) =>
          /\ ui'.view \in {"select brand", "select segment"}
          /\ ui'.shown = <<>> /\ ui'.listing = <<>> /\ ui'.summary = <<>>
          /\ IF "saved_scenarios" \in DOMAIN session_state
             THEN /\ session_state'.saved_scenarios = session_state.saved_scenarios
                  /\ session_state'.scenario_counter = session_state.scenario_counter
             ELSE /\ DictKeys(session_state'.saved_scenarios) = <<"original">>
                  /\ session_state'.scenario_counter = 0
          /\ IF "edited_simulation" \in DOMAIN session_state
             THEN /\ "edited_simulation" \in DOMAIN session_state'
                  /\ session_state'.edited_simulation = session_state.edited_simulation
             ELSE "edited_simulation" \notin DOMAIN session_state'
     /\ (/\ "saved_scenarios" \in DOMAIN session_state'
         /\ IF "saved_scenarios" \in DOMAIN session_state
            THEN \/ Len(session_state'.saved_scenarios) > Len(session_state.saved_scenarios)
                 \/ session_state'.scenario_counter > session_state.scenario_counter
            ELSE \/ Len(session_state'.saved_scenarios) > 1
                 \/ session_state'.scenario_counter > 0)
          => /\ RunSaveScenario
             /\ ui.view = "Scenario Simulation"
             /\ ui'.view = "Scenario Simulation"]_vars

\* the brand is deselected after a save with an edited working copy
C20_Witness ==
  /\ ui.view = "select brand"
  /\ session_state.scenario_counter = 1
  /\ session_state.edited_simulation # session_state.original_simulation

\* C21: the working copy is created from the loaded simulation table by the
\* first run of the Scenario Simulation tab and never reset: every run that
\* is not an edit of a cell (a save, an Update ROI click, any other tab)
\* leaves its content as it was, a save stores that content, and a save
\* that follows a save stores a table equal to the one before it under
\* another name.
C21_WorkingCopyNeverReset ==
  [][/\ IF "edited_simulation" \in DOMAIN session_state
        THEN /\ "edited_simulation" \in DOMAIN session_state'
             /\ RunEditCell \/ session_state'.edited_simulation = session_state.edited_simulation
        ELSE "edited_simulation" \in DOMAIN session_state' =>
               /\ ui'.view = "Scenario Simulation"
               /\ session_state'.edited_simulation = load_backend_data(backend).simulation
     /\ RunSaveScenario =>
          LET saved == session_state.saved_scenarios
              saved_after == session_state'.saved_scenarios
          IN  /\ saved_after[Len(saved_after)][2] = session_state.edited_simulation
              /\ ui.message = "Scenario saved as " \o ScenarioName(session_state.scenario_counter) =>
                   /\ saved_after[Len(saved_after)][2] = saved[Len(saved)][2]
                   /\ saved_after[Len(saved_after)][1] # saved[Len(saved)][1]]_vars

\* an edit, then two saves one after the other
C21_Witness ==
  /\ ui.view = "Scenario Simulation"
  /\ ui.message = "Scenario saved as scenario-2"
  /\ session_state.saved_scenarios[2][2] = session_state.saved_scenarios[3][2]
  /\ session_state.saved_scenarios[3][2] = session_state.edited_simulation
  /\ session_state.edited_simulation # session_state.original_simulation

\* C22: the runs that only read the store (the Scenario Comparison tab with
\* any selection, an Update ROI click, the Planned and the Recommended tab)
\* change neither the baseline, nor the table or name of any saved
\* scenario, nor the counter; in a session that has no store yet they
\* leave the store as the initialisation creates it.
C22_ReadOnlyRunsKeepStore ==
  [][(\/ RunScenarioComparison
      \/ RunChangeSelection
      \/ RunUpdateROI
      \/ RunPlannedBudget
      \/ RunRecommendedBudget) =>
       IF "original_simulation" \in DOMAIN session_state
       THEN /\ session_state'.original_simulation = session_state.original_simulation
            /\ session_state'.saved_scenarios = session_state.saved_scenarios
            /\ session_state'.scenario_counter = session_state.scenario_counter
       ELSE /\ session_state'.original_simulation = load_backend_data(backend).simulation
            /\ session_state'.saved_scenarios
                 = << <<"original", session_state'.original_simulation>> >>
            /\ session_state'.scenario_counter = 0]_vars

\* two saved scenarios are compared, summary and detail table built
C22_Witness ==
  /\ ui.view = "Scenario Comparison"
  /\ ui.selected = <<"scenario-2", "scenario-1">>
  /\ Len(ui.summary) = 3
  /\ Len(ui.detail.rows) = 5
  /\ session_state.scenario_counter = 2

====
